---- MODULE Spec2Model ----
(***************************************************************************)
(* Liquidity-pool exchange simulation of exp/orderbook/pools.go.           *)
(*                                                                         *)
(* The Go code computes on int64 inputs through 256-bit unsigned integers  *)
(* (github.com/holiman/uint256).  TLC's own integers are 32 bits wide, so  *)
(* every machine integer of the program is modelled here as a little-      *)
(* endian sequence of limbs in base 2^8 without leading zero limbs: an     *)
(* int64 is its 64-bit two's complement pattern (at most 8 limbs), a       *)
(* uint256.Int is at most 32 limbs, and the mathematical ("unbounded")     *)
(* integers used to state the properties are limb sequences of any length. *)
(***************************************************************************)
EXTENDS Integers, Sequences, FiniteSets, TLC

(***************************************************************************)
(* Unbounded naturals as limb sequences.                                   *)
(***************************************************************************)
Base == 256

Limb(a, i) == IF i <= Len(a) THEN a[i] ELSE 0

\* The largest element of a non-empty set of numbers.
Max(S) == CHOOSE i \in S : \A j \in S : j <= i

\* a without its leading zero limbs
NonZero(a) == {i \in 1..Len(a) : a[i] # 0}
Norm(a) == IF a = << >> \/ NonZero(a) = {} THEN << >> ELSE SubSeq(a, 1, Max(NonZero(a)))

RECURSIVE Nat2Limbs(_)
Nat2Limbs(n) == IF n = 0 THEN << >> ELSE <<n % Base>> \o Nat2Limbs(n \div Base)

\* Comparison: -1, 0 or 1, decided by the most significant limb that differs.
Differ(a, b) == {i \in 1..Len(a) : a[i] # b[i]}
CmpAt(a, b, D) ==
    IF D = {} THEN 0
    ELSE IF a[Max(D)] < b[Max(D)] THEN -1
    ELSE 1

Cmp(a, b) ==
    IF Len(a) < Len(b) THEN -1
    ELSE IF Len(a) > Len(b) THEN 1
    ELSE CmpAt(a, b, Differ(a, b))

Lt(a, b) == Cmp(a, b) < 0
Le(a, b) == Cmp(a, b) <= 0

\* Forced(v, e): the value e, computed once v is.  TLC evaluates operands on
\* demand; a loop that hands its accumulator on unevaluated builds a chain of
\* suspended steps as deep as the loop is long.
Forced(v, e) == IF v = v THEN e ELSE e

\* The loops over the limbs below work on a range lo..hi of limbs by halves,
\* so that the evaluation is nested as deep as the logarithm of the length.
\* A range's value is the sequence of its steps' results (a limb together
\* with the carry it passes on); the half computed first hands its last
\* result to the other half.
LowLimbs(steps) == [i \in 1..Len(steps) |-> steps[i] % Base]
\* the limbs of the steps, and the last carry as one more limb
Carried(steps) == Norm(Append(LowLimbs(steps), steps[Len(steps)] \div Base))

\* the sums a[i] + b[i] + carry
RECURSIVE AddRange(_, _, _, _, _)
AddUpper(a, b, mid, hi, lower) ==
    lower \o AddRange(a, b, mid + 1, hi, lower[Len(lower)] \div Base)
AddRange(a, b, lo, hi, carry) ==
    IF lo = hi THEN <<Limb(a, lo) + Limb(b, lo) + carry>>
    ELSE AddUpper(a, b, (lo + hi) \div 2, hi, AddRange(a, b, lo, (lo + hi) \div 2, carry))

AddN(a, b) ==
    IF a = << >> THEN b
    ELSE IF b = << >> THEN a
    ELSE Carried(AddRange(a, b, 1, IF Len(a) < Len(b) THEN Len(b) ELSE Len(a), 0))

\* a - b for a >= b: the differences Base + a[i] - b[i] - borrow, which are
\* below Base when the limb borrows
RECURSIVE SubRange(_, _, _, _, _)
SubUpper(a, b, mid, hi, lower) ==
    lower \o SubRange(a, b, mid + 1, hi, IF lower[Len(lower)] < Base THEN 1 ELSE 0)
SubRange(a, b, lo, hi, borrow) ==
    IF lo = hi THEN <<Base + a[lo] - Limb(b, lo) - borrow>>
    ELSE SubUpper(a, b, (lo + hi) \div 2, hi, SubRange(a, b, lo, (lo + hi) \div 2, borrow))

SubN(a, b) == IF b = << >> THEN a ELSE Norm(LowLimbs(SubRange(a, b, 1, Len(a), 0)))

\* a * d for a single limb-sized factor 0 <= d < Base: the products
\* a[i] * d + carry
RECURSIVE MulLimbRange(_, _, _, _, _)
MulLimbUpper(a, d, mid, hi, lower) ==
    lower \o MulLimbRange(a, d, mid + 1, hi, lower[Len(lower)] \div Base)
MulLimbRange(a, d, lo, hi, carry) ==
    IF lo = hi THEN <<a[lo] * d + carry>>
    ELSE MulLimbUpper(a, d, (lo + hi) \div 2, hi,
                      MulLimbRange(a, d, lo, (lo + hi) \div 2, carry))

MulLimb(a, d) ==
    IF d = 0 \/ a = << >> THEN << >> ELSE Carried(MulLimbRange(a, d, 1, Len(a), 0))

\* a * Base^k
ShiftN(a, k) == IF a = << >> THEN a ELSE [i \in 1..k |-> 0] \o a

\* a * b: the sum over the limbs lo..hi of b of a * b[i] * Base^(i - 1).
RECURSIVE MulRange(_, _, _, _)
MulRange(a, b, lo, hi) ==
    IF lo = hi THEN ShiftN(MulLimb(a, b[lo]), lo - 1)
    ELSE AddN(MulRange(a, b, lo, (lo + hi) \div 2),
              MulRange(a, b, (lo + hi) \div 2 + 1, hi))

MulN(a, b) ==
    IF a = << >> \/ b = << >> THEN << >>
    ELSE IF Len(a) < Len(b) THEN MulRange(b, a, 1, Len(a))
    ELSE MulRange(a, b, 1, Len(b))

\* The largest q in lo..hi with q * b <= r  (lo * b <= r is given).
RECURSIVE QuotLimb(_, _, _, _)
QuotMid(r, b, lo, hi, mid) ==
    IF Le(MulLimb(b, mid), r) THEN QuotLimb(r, b, mid, hi) ELSE QuotLimb(r, b, lo, mid - 1)
QuotLimb(r, b, lo, hi) ==
    IF lo >= hi THEN lo ELSE QuotMid(r, b, lo, hi, (lo + hi + 1) \div 2)

\* One quotient limb, floor(r / b) for b <= r < b * Base.  With B2 the two
\* leading limbs of b (b itself when it has one limb) and R the limbs of r
\* from the same position up, R \div (B2 + 1) <= floor(r / b) <= R \div B2;
\* QuotLimb decides inside that bracket.
LeadB(b) == IF Len(b) = 1 THEN b[1] ELSE b[Len(b)] * Base + b[Len(b) - 1]
LeadR(r, k) == Limb(r, k + 3) * Base * Base + Limb(r, k + 2) * Base + Limb(r, k + 1)
QuotBracket(r, b, B2, R) ==
    QuotLimb(r, b,
             IF Len(b) = 1 THEN R \div B2 ELSE R \div (B2 + 1),
             IF R \div B2 > Base - 1 THEN Base - 1 ELSE R \div B2)
QuotStep(r, b) == QuotBracket(r, b, LeadB(b), LeadR(r, IF Len(b) = 1 THEN 0 ELSE Len(b) - 2))

\* Long division for b # 0: <<quotient, remainder>>.  The limbs hi down to lo
\* of a are brought down onto the remainder r, the upper half first; a range's
\* value is its steps' <<quotient limb, remainder>>, the most significant
\* limb's first.
RECURSIVE DivRange(_, _, _, _, _)
DivLimb(b, r1, d) == Forced(d, <<d, SubN(r1, MulLimb(b, d))>>)
DivRem(b, r1) == DivLimb(b, r1, IF Lt(r1, b) THEN 0 ELSE QuotStep(r1, b))
DivLower(a, b, lo, mid, upper) ==
    upper \o DivRange(a, b, lo, mid, upper[Len(upper)][2])
DivRange(a, b, lo, hi, r) ==
    IF lo = hi THEN <<DivRem(b, Norm(<<a[lo]>> \o r))>>
    ELSE DivLower(a, b, lo, (lo + hi) \div 2, DivRange(a, b, (lo + hi) \div 2 + 1, hi, r))

DivEnd(steps) ==
    <<Norm([i \in 1..Len(steps) |-> steps[Len(steps) + 1 - i][1]]), steps[Len(steps)][2]>>
DivModN(a, b) ==
    IF a = << >> THEN << << >>, << >> >> ELSE DivEnd(DivRange(a, b, 1, Len(a), << >>))
DivN(a, b) == DivModN(a, b)[1]
ModN(a, b) == DivModN(a, b)[2]

(***************************************************************************)
(* Machine integers.                                                       *)
(***************************************************************************)
Limbs64  == 8      \* a 64-bit word
Limbs256 == 32     \* a uint256.Int

Pow(k) == [i \in 1..k |-> 0] \o <<1>>           \* Base^k
Low(a, k) == Norm(SubSeq(a, 1, IF Len(a) < k THEN Len(a) ELSE k))   \* a mod Base^k
\* a - b modulo Base^k, for a, b < Base^k
SubWrap(a, b, k) == SubN(IF Le(b, a) THEN a ELSE AddN(a, Pow(k)), b)

\* uint256.Int arithmetic: results wrap modulo 2^256; x/0 and x%0 are 0.
\* Each operation computes its operands before it starts (Forced).
U256Add(a, b) == Forced(<<a, b>>, Low(AddN(a, b), Limbs256))
U256Sub(a, b) == Forced(<<a, b>>, SubWrap(a, b, Limbs256))
U256Mul(a, b) == IF a = << >> \/ b = << >> THEN << >> ELSE Low(MulN(a, b), Limbs256)
U256Div(a, b) == IF b = << >> \/ a = << >> THEN << >> ELSE DivN(a, b)
U256Mod(a, b) == IF b = << >> \/ a = << >> THEN << >> ELSE ModN(a, b)
U256Abs(a) ==
    IF Len(a) = Limbs256 /\ a[Limbs256] >= Base \div 2
    THEN SubN(Pow(Limbs256), a) ELSE a
IsZero(a) == a = << >>
IsUint64(a) == Len(a) <= Limbs64
Uint64(a) == Low(a, Limbs64)

\* int64 values are 64-bit two's complement patterns.
MaxInt64 == [i \in 1..Limbs64 |-> IF i = Limbs64 THEN Base \div 2 - 1 ELSE Base - 1]
I64(n) == IF n >= 0 THEN Nat2Limbs(n) ELSE SubN(Pow(Limbs64), Nat2Limbs(-n))
IsNeg64(v) == Len(v) = Limbs64 /\ v[Limbs64] >= Base \div 2
Sub64(a, b) == SubWrap(a, b, Limbs64)
Gt64(a, b) ==                                   \* signed a > b
    IF IsNeg64(a) # IsNeg64(b) THEN IsNeg64(b) ELSE Lt(b, a)
Ge64(a, b) == a = b \/ Gt64(a, b)
Le64(a, b) == ~Gt64(a, b)
\* uint64(v) of an int32 v (a 32-bit pattern): sign extension.
Int32ToUint64(v) ==
    IF Len(v) = 4 /\ v[4] >= Base \div 2 THEN v \o <<Base - 1, Base - 1, Base - 1, Base - 1>> ELSE v

(***************************************************************************)
(* pools.go.  Each Go function is an operator; where the Go code names an  *)
(* intermediate value (f, denom, numer, result, ...) the rest of the       *)
(* function is an operator that takes that value as a parameter, so the    *)
(* definitions read bottom-up.  cb and bp are the values of the package    *)
(* variables centibips and bips at the call.                               *)
(***************************************************************************)
tradeTypeDeposit     == 0
tradeTypeExpectation == 1

errPoolOverflows == "Liquidity pool overflows from this exchange"
errBadPoolType   == "Unsupported liquidity pool: must be ConstantProduct"
errBadTradeType  == "Unknown pool exchange type requested"
errBadAmount     == "Exchange amount must be positive"
nil              == "nil"

VARIABLES
    centibips,  \* package variable: uint256 10_000
    bips,       \* package variable: uint256 100
    pool,       \* the liquidity pool the caller holds
    amount,     \* the amount the caller trades
    first,      \* the caller's first call and what it returned
    second,     \* the caller's follow-up call on the same pool
    nr,         \* support/db: the NullRat the caller holds
    value,      \* support/db: what nr.Value() returned
    scanned,    \* support/db: a fresh NullRat after Scan, and Scan's error
    builder,    \* support/db: the BatchInsertBuilder (columns, rows, stmt)
    rowCall,    \* support/db: the last call on the builder and what it returned
    threads     \* exp/orderbook: the calls in progress on concurrent threads

poolVars == <<centibips, bips, pool, amount, first, second>>
dbVars == <<nr, value, scanned, builder, rowCall>>
vars == <<poolVars, dbVars, threads>>

\* ---- CalculatePoolPayout ----
PayoutFail == [val |-> << >>, slippage |-> << >>, ok |-> FALSE]

\* val := xdr.Int64(result.Uint64()); ok = ok && result.IsUint64() && val >= 0
PayoutReturn(result, roundingSlippageBips, ok) ==
    [val |-> Uint64(result), slippage |-> roundingSlippageBips,
     ok |-> ok /\ IsUint64(result) /\ ~IsNeg64(Uint64(result))]

\* roundingSlippageBips = xdr.Int64(S.Uint64()); ok = ok && S.IsUint64() && ... >= 0
PayoutSlippageS(result, S) ==
    PayoutReturn(result, Uint64(S), IsUint64(S) /\ ~IsNeg64(Uint64(S)))

\* S = |unrounded - rounded| * centibips / unrounded / bips
PayoutSlippage(cb, bp, result, unrounded, rounded) ==
    PayoutSlippageS(result,
        U256Div(U256Div(U256Mul(U256Abs(U256Sub(unrounded, rounded)), cb), unrounded), bp))

PayoutResult(cb, bp, numer, denom, result, calculateRoundingSlippage) ==
    IF calculateRoundingSlippage /\ ~IsZero(U256Mod(numer, denom))
    THEN PayoutSlippage(cb, bp, result, U256Div(U256Mul(numer, cb), denom), U256Mul(result, cb))
    ELSE PayoutReturn(result, << >>, TRUE)

\* PayoutNumer with the quotient rounded up instead of down.
PayoutNumer_RoundUp(cb, bp, numer, denom, calculateRoundingSlippage) ==
    PayoutResult(cb, bp, numer, denom,
                 U256Div(U256Add(numer, U256Sub(denom, <<1>>)), denom),
                 calculateRoundingSlippage)

PayoutNumer(cb, bp, numer, denom, calculateRoundingSlippage) ==
    PayoutResult(cb, bp, numer, denom, U256Div(numer, denom), calculateRoundingSlippage)

PayoutDenom(cb, bp, Y, x, f, denom, calculateRoundingSlippage) ==
    IF IsZero(denom) THEN PayoutFail
    ELSE PayoutNumer(cb, bp, U256Mul(U256Mul(Y, x), f), denom, calculateRoundingSlippage)

\* PayoutF with the fee left out of the denominator: X * centibips + x * centibips.
PayoutF_NoFeeInDenom(cb, bp, X, Y, x, f, calculateRoundingSlippage) ==
    PayoutDenom(cb, bp, Y, x, f, U256Add(U256Mul(X, cb), U256Mul(x, cb)),
                calculateRoundingSlippage)

\* denom := X * centibips + x * f
PayoutF(cb, bp, X, Y, x, f, calculateRoundingSlippage) ==
    PayoutDenom(cb, bp, Y, x, f, U256Add(U256Mul(X, cb), U256Mul(x, f)),
                calculateRoundingSlippage)

\* CalculatePoolPayout without the check that the deposit fits the reserve.
CalculatePoolPayout_NoOverflowCheck(cb, bp, reserveA, reserveB, received, feeBips, calculateRoundingSlippage) ==
    PayoutF(cb, bp, reserveA, reserveB, received,
            U256Sub(cb, Int32ToUint64(feeBips)), calculateRoundingSlippage)

CalculatePoolPayout(cb, bp, reserveA, reserveB, received, feeBips, calculateRoundingSlippage) ==
    IF Gt64(received, Sub64(MaxInt64, reserveA)) THEN PayoutFail
    ELSE PayoutF(cb, bp, reserveA, reserveB, received,
                 U256Sub(cb, Int32ToUint64(feeBips)), calculateRoundingSlippage)

\* ---- poolExpectationCentibips ----
ExpectationFail == [result |-> << >>, rem |-> << >>, ok |-> FALSE]

\* ExpectationCeil that steps up to the next whole unit even without a remainder.
ExpectationCeil_AlwaysUp(cb, result, rem) ==
    [result |-> U256Sub(U256Add(result, cb), rem), rem |-> rem, ok |-> TRUE]

\* if !rem.IsZero() { result.Add(result, centibips).Sub(result, rem) }
ExpectationCeil(cb, result, rem) ==
    [result |-> IF ~IsZero(rem) THEN U256Sub(U256Add(result, cb), rem) ELSE result,
     rem |-> rem, ok |-> TRUE]

ExpectationResult(cb, result) == ExpectationCeil(cb, result, U256Mod(result, cb))

\* ExpectationDenom without the denom.IsZero() check: Div by zero yields 0.
ExpectationDenom_NoZeroCheck(cb, X, y, denom) ==
    ExpectationResult(cb, U256Div(U256Mul(U256Mul(U256Mul(X, y), cb), cb), denom))

\* numer := X * y * centibips; result := numer * centibips / denom
ExpectationDenom(cb, X, y, denom) ==
    IF IsZero(denom) THEN ExpectationFail
    ELSE ExpectationResult(cb, U256Div(U256Mul(U256Mul(U256Mul(X, y), cb), cb), denom))

poolExpectationCentibips(cb, reserveA, reserveB, disbursed, feeBips) ==
    IF Ge64(disbursed, reserveB) THEN ExpectationFail
    ELSE ExpectationDenom(cb, reserveA, disbursed,
             U256Mul(U256Sub(reserveB, disbursed), U256Sub(cb, Int32ToUint64(feeBips))))

\* ---- calculatePoolExpectation ----
\* ExpectationReturn that narrows to 64 bits without checking the range.
ExpectationReturn_Unchecked(result) == [val |-> Uint64(result), ok |-> TRUE]

\* ExpectationReturn that checks the 64-bit width but not the sign (no val >= 0).
ExpectationReturn_NoSignCheck(result) == [val |-> Uint64(result), ok |-> IsUint64(result)]

ExpectationReturn(result) ==
    [val |-> Uint64(result), ok |-> IsUint64(result) /\ ~IsNeg64(Uint64(result))]

ExpectationDownscale(cb, r) ==
    IF ~r.ok THEN [val |-> << >>, ok |-> FALSE]
    ELSE ExpectationReturn(U256Div(r.result, cb))

calculatePoolExpectation(cb, reserveA, reserveB, disbursed, feeBips) ==
    ExpectationDownscale(cb, poolExpectationCentibips(cb, reserveA, reserveB, disbursed, feeBips))

\* ---- CalculatePoolExpectationRoundingSlippage ----
SlippageReturn(S) ==
    [val |-> Uint64(S), ok |-> IsUint64(S) /\ ~IsNeg64(Uint64(S))]

\* unrounded = rounded - centibips + rem; S = (centibips - rem) * centibips / unrounded / bips
SlippageOf(cb, bp, r) ==
    IF ~r.ok THEN [val |-> << >>, ok |-> FALSE]
    ELSE IF IsZero(r.rem) THEN [val |-> << >>, ok |-> TRUE]
    ELSE SlippageReturn(
             U256Div(U256Div(U256Mul(U256Sub(cb, r.rem), cb),
                             U256Add(U256Sub(r.result, cb), r.rem)), bp))

CalculatePoolExpectationRoundingSlippage(cb, bp, reserveA, reserveB, disbursed, feeBips) ==
    SlippageOf(cb, bp, poolExpectationCentibips(cb, reserveA, reserveB, disbursed, feeBips))

\* ---- makeTrade ----
\* TradeResult that does not look at ok.
TradeResult_IgnoreOk(r) == [val |-> r.val, err |-> nil]

TradeResult(r) ==
    IF ~r.ok THEN [val |-> << >>, err |-> errPoolOverflows]
    ELSE [val |-> r.val, err |-> nil]

\* makeTrade that checks the amount before the pool type.
makeTrade_AmountFirst(cb, bp, p, asset, tradeType, amt) ==
    IF Le64(amt, << >>) THEN [val |-> << >>, err |-> errBadAmount]
    ELSE IF p.type # "ConstantProduct" THEN [val |-> << >>, err |-> errBadPoolType]
    ELSE IF tradeType = tradeTypeDeposit
    THEN TradeResult(CalculatePoolPayout(cb, bp,
             IF p.assetA # asset THEN p.ReserveB ELSE p.ReserveA,
             IF p.assetA # asset THEN p.ReserveA ELSE p.ReserveB, amt, p.Fee, FALSE))
    ELSE IF tradeType = tradeTypeExpectation
    THEN TradeResult(calculatePoolExpectation(cb,
             IF p.assetA # asset THEN p.ReserveB ELSE p.ReserveA,
             IF p.assetA # asset THEN p.ReserveA ELSE p.ReserveB, amt, p.Fee))
    ELSE [val |-> << >>, err |-> errBadTradeType]

\* makeTrade without "if pool.assetA != asset { X, Y = Y, X }".
makeTrade_NeverSwaps(cb, bp, p, asset, tradeType, amt) ==
    IF p.type # "ConstantProduct" THEN [val |-> << >>, err |-> errBadPoolType]
    ELSE IF Le64(amt, << >>) THEN [val |-> << >>, err |-> errBadAmount]
    ELSE IF tradeType = tradeTypeDeposit
    THEN TradeResult(CalculatePoolPayout(cb, bp, p.ReserveA, p.ReserveB, amt, p.Fee, FALSE))
    ELSE IF tradeType = tradeTypeExpectation
    THEN TradeResult(calculatePoolExpectation(cb, p.ReserveA, p.ReserveB, amt, p.Fee))
    ELSE [val |-> << >>, err |-> errBadTradeType]

\* p.type = "ConstantProduct" is the ok of pool.Body.GetConstantProduct().
makeTrade(cb, bp, p, asset, tradeType, amt) ==
    IF p.type # "ConstantProduct" THEN [val |-> << >>, err |-> errBadPoolType]
    ELSE IF Le64(amt, << >>) THEN [val |-> << >>, err |-> errBadAmount]
    ELSE
    LET X == IF p.assetA # asset THEN p.ReserveB ELSE p.ReserveA
        Y == IF p.assetA # asset THEN p.ReserveA ELSE p.ReserveB
    IN  IF tradeType = tradeTypeDeposit
        THEN TradeResult(CalculatePoolPayout(cb, bp, X, Y, amt, p.Fee, FALSE))
        ELSE IF tradeType = tradeTypeExpectation
        THEN TradeResult(calculatePoolExpectation(cb, X, Y, amt, p.Fee))
        ELSE [val |-> << >>, err |-> errBadTradeType]

(***************************************************************************)
(* The caller: a pool, an amount, one call, and possibly a follow-up call  *)
(* on the same pool.                                                       *)
(***************************************************************************)
Near == 1          \* how many values next to 0 and next to MaxInt64 are drawn

ReserveVals ==
    {I64(k) : k \in 0..Near} \cup {Sub64(MaxInt64, I64(k)) : k \in 0..(Near - 1)}
        \cup {I64(200), I64(300), I64(1000), I64(20002)}
AmountVals ==
    {I64(k) : k \in -1..Near} \cup {Sub64(MaxInt64, I64(k)) : k \in 0..(Near - 1)}
        \cup {I64(3), I64(100)}
FeeVals == {I64(0), I64(30), I64(9999), I64(10000)}
TradeTypes == {tradeTypeDeposit, tradeTypeExpectation, 2}
AssetA == 1
AssetB == 2

Pools ==
    [type : {"ConstantProduct"}, assetA : {AssetA}, assetB : {AssetB},
     ReserveA : ReserveVals, ReserveB : ReserveVals, Fee : FeeVals]
        \cup [type : {"Stableswap"}, assetA : {AssetA}, assetB : {AssetB}]

NoCall == [fn |-> "none"]

\* support/db is not in use: zero values.
NilRat == [isNil |-> TRUE]
NoValue == [kind |-> "none"]
\* b.columns == nil is hasColumns = FALSE; stmt is "nil", "prepared" or "none"
\* for the builder that keeps its rows in memory
NewBuilder == [columns |-> << >>, hasColumns |-> FALSE, rows |-> << >>, stmt |-> "none"]
NoThreads == << >>
NoRowCall == [fn |-> "none", n |-> 0]
DbIdle ==
    /\ nr = [Rat |-> NilRat, Valid |-> FALSE]
    /\ value = NoValue
    /\ scanned = NoValue
    /\ builder = NewBuilder
    /\ rowCall = NoRowCall
    /\ threads = NoThreads

Init ==
    /\ centibips = Nat2Limbs(10000)
    /\ bips = Nat2Limbs(100)
    /\ pool \in Pools
    /\ amount \in AmountVals
    /\ first = NoCall
    /\ second = NoCall
    /\ DbIdle

PayoutCall(a, b, amt, fee, flag) ==
    [fn |-> "CalculatePoolPayout", reserveA |-> a, reserveB |-> b, amount |-> amt,
     feeBips |-> fee, slip |-> flag,
     ret |-> CalculatePoolPayout(centibips, bips, a, b, amt, fee, flag)]

ExpectationCall(a, b, amt, fee) ==
    [fn |-> "calculatePoolExpectation", reserveA |-> a, reserveB |-> b, amount |-> amt,
     feeBips |-> fee,
     ret |-> calculatePoolExpectation(centibips, a, b, amt, fee)]

SlippageCall(a, b, amt, fee) ==
    [fn |-> "CalculatePoolExpectationRoundingSlippage", reserveA |-> a, reserveB |-> b,
     amount |-> amt, feeBips |-> fee,
     ret |-> CalculatePoolExpectationRoundingSlippage(centibips, bips, a, b, amt, fee)]

CallPayout(flag) ==
    /\ first = NoCall
    /\ pool.type = "ConstantProduct"
    /\ first' = PayoutCall(pool.ReserveA, pool.ReserveB, amount, pool.Fee, flag)
    /\ UNCHANGED <<centibips, bips, pool, amount, second, dbVars, threads>>

CallExpectation ==
    /\ first = NoCall
    /\ pool.type = "ConstantProduct"
    /\ first' = ExpectationCall(pool.ReserveA, pool.ReserveB, amount, pool.Fee)
    /\ UNCHANGED <<centibips, bips, pool, amount, second, dbVars, threads>>

CallSlippage ==
    /\ first = NoCall
    /\ pool.type = "ConstantProduct"
    /\ first' = SlippageCall(pool.ReserveA, pool.ReserveB, amount, pool.Fee)
    /\ UNCHANGED <<centibips, bips, pool, amount, second, dbVars, threads>>

CallMakeTrade(asset, tradeType) ==
    /\ first = NoCall
    /\ first' = [fn |-> "makeTrade", asset |-> asset, tradeType |-> tradeType,
                 amount |-> amount,
                 ret |-> makeTrade(centibips, bips, pool, asset, tradeType, amount)]
    /\ UNCHANGED <<centibips, bips, pool, amount, second, dbVars, threads>>

\* The payout just computed is asked back as an expectation.
ExpectationOfPayout ==
    /\ first.fn = "CalculatePoolPayout" /\ first.ret.ok
    /\ second = NoCall
    /\ second' = ExpectationCall(first.reserveA, first.reserveB, first.ret.val, first.feeBips)
    /\ UNCHANGED <<centibips, bips, pool, amount, first, dbVars, threads>>

\* The deposit just computed is paid in.
PayoutOfExpectation ==
    /\ first.fn = "calculatePoolExpectation" /\ first.ret.ok
    /\ second = NoCall
    /\ second' = PayoutCall(first.reserveA, first.reserveB, first.ret.val, first.feeBips, FALSE)
    /\ UNCHANGED <<centibips, bips, pool, amount, first, dbVars, threads>>

\* A second call of the same function on the same pool with another amount.
PayoutAgain(amt) ==
    /\ first.fn = "CalculatePoolPayout"
    /\ second = NoCall
    /\ second' = PayoutCall(first.reserveA, first.reserveB, amt, first.feeBips, first.slip)
    /\ UNCHANGED <<centibips, bips, pool, amount, first, dbVars, threads>>

ExpectationAgain(amt) ==
    /\ first.fn = "calculatePoolExpectation"
    /\ second = NoCall
    /\ second' = ExpectationCall(first.reserveA, first.reserveB, amt, first.feeBips)
    /\ UNCHANGED <<centibips, bips, pool, amount, first, dbVars, threads>>

\* The same liquidity pool with its two assets and their reserves exchanged.
Exchanged(p) ==
    IF p.type # "ConstantProduct"
    THEN [p EXCEPT !.assetA = p.assetB, !.assetB = p.assetA]
    ELSE [p EXCEPT !.assetA = p.assetB, !.assetB = p.assetA,
                   !.ReserveA = p.ReserveB, !.ReserveB = p.ReserveA]

\* The trade just made is made again on the exchanged pool.
TradeSwapped ==
    /\ first.fn = "makeTrade"
    /\ second = NoCall
    /\ second' = [fn |-> "makeTrade", pool |-> Exchanged(pool), asset |-> first.asset,
                  tradeType |-> first.tradeType, amount |-> first.amount,
                  ret |-> makeTrade(centibips, bips, Exchanged(pool), first.asset,
                                    first.tradeType, first.amount)]
    /\ UNCHANGED <<centibips, bips, pool, amount, first, dbVars, threads>>

Next ==
    \/ \E flag \in BOOLEAN : CallPayout(flag)
    \/ CallExpectation
    \/ CallSlippage
    \/ \E asset \in {AssetA, AssetB}, tradeType \in TradeTypes : CallMakeTrade(asset, tradeType)
    \/ ExpectationOfPayout
    \/ PayoutOfExpectation

Spec == Init /\ [][Next]_vars

\* Two calls of one calculator on one pool, for the claims that compare them.
NextPair ==
    \/ \E flag \in BOOLEAN : CallPayout(flag)
    \/ CallExpectation
    \/ \E amt \in AmountVals : PayoutAgain(amt)
    \/ \E amt \in AmountVals : ExpectationAgain(amt)

SpecPair == Init /\ [][NextPair]_vars

\* One trade on a pool and on the exchanged pool.
NextSwap ==
    \/ \E asset \in {AssetA, AssetB}, tradeType \in TradeTypes : CallMakeTrade(asset, tradeType)
    \/ TradeSwapped

SpecSwap == Init /\ [][NextSwap]_vars

(***************************************************************************)
(* support/db/null_rat.go.  A *big.Rat is NilRat or a fraction in lowest   *)
(* terms: sign neg, numerator a and denominator b >= 1 as unbounded        *)
(* naturals.  A string is a sequence of one-character strings.             *)
(***************************************************************************)
Digits == <<"0", "1", "2", "3", "4", "5", "6", "7", "8", "9">>
DigitChar(d) == Digits[d + 1]
IsDigit(c) == \E d \in 1..10 : Digits[d] = c
DigitVal(c) == (CHOOSE d \in 1..10 : Digits[d] = c) - 1
Ten == <<10>>
One == <<1>>

\* nat.utoa(10): the decimal digits of n, "0" for zero; the digits are
\* produced by halves, as nat.convertWords does, and leading zeros dropped
RECURSIVE Pow10(_)
Pow10(k) ==
    IF k = 0 THEN One ELSE IF k = 1 THEN Ten ELSE MulN(Pow10(k \div 2), Pow10(k - k \div 2))
RECURSIVE UtoaWidth(_, _)
UtoaHalves(qr, w) == UtoaWidth(qr[1], w - w \div 2) \o UtoaWidth(qr[2], w \div 2)
UtoaWidth(n, w) ==
    IF w = 1 THEN <<DigitChar(Limb(n, 1))>>
    ELSE UtoaHalves(DivModN(n, Pow10(w \div 2)), w)
Significant(t) == {i \in 1..Len(t) : t[i] # "0"}
UtoaTrim(t, S) == SubSeq(t, CHOOSE i \in S : \A j \in S : i <= j, Len(t))
UtoaDigits(t) == UtoaTrim(t, Significant(t))
Utoa(n) == IF n = << >> THEN <<"0">> ELSE UtoaDigits(UtoaWidth(n, 3 * Len(n)))

Zeros(k) == [i \in 1..k |-> "0"]

RECURSIVE Pow2(_)
Pow2(k) ==
    IF k = 0 THEN One ELSE IF k = 1 THEN <<2>> ELSE MulN(Pow2(k \div 2), Pow2(k - k \div 2))

\* nat.gcd by Euclid's steps; a step leaves <<g, 0>> as it is, and the steps
\* are taken 2^k at a time
GcdStep(p) == IF p[2] = << >> THEN p ELSE <<p[2], ModN(p[1], p[2])>>
RECURSIVE GcdSteps(_, _)
GcdAgain(k, q) == Forced(q, GcdSteps(k, q))
GcdSteps(k, p) == IF k = 0 THEN GcdStep(p) ELSE GcdAgain(k - 1, GcdSteps(k - 1, p))
RECURSIVE GcdLoop(_)
GcdLoop(p) == IF p[2] = << >> THEN p[1] ELSE GcdLoop(GcdSteps(5, p))
Gcd(a, b) == GcdLoop(<<a, b>>)

\* Rat.norm: lowest terms, zero is +0/1
RatReduce(neg, a, b, g) == [isNil |-> FALSE, neg |-> neg, a |-> DivN(a, g), b |-> DivN(b, g)]
RatNorm(neg, a, b) ==
    IF a = << >> THEN [isNil |-> FALSE, neg |-> FALSE, a |-> << >>, b |-> One]
    ELSE RatReduce(neg, a, b, Gcd(a, b))

\* Rat.FloatString(prec): q "." r with prec digits, rounded half away from zero
SignText(x) == IF x.neg THEN <<"-">> ELSE << >>
FloatStringDigits(prec, rs) == Zeros(prec - Len(rs)) \o rs
FloatStringText(x, prec, q, r) ==
    SignText(x) \o Utoa(q)
        \o (IF prec > 0 THEN <<".">> \o FloatStringDigits(prec, Utoa(r)) ELSE << >>)
FloatStringCarry(x, prec, p, q, r) ==
    IF Le(p, r) THEN FloatStringText(x, prec, AddN(q, One), SubN(r, p))
    ELSE FloatStringText(x, prec, q, r)
FloatStringRound(x, prec, p, q, rr) ==
    IF Le(x.b, AddN(rr[2], rr[2]))
    THEN FloatStringCarry(x, prec, p, q, AddN(rr[1], One))
    ELSE FloatStringText(x, prec, q, rr[1])
FloatStringFrac(x, prec, p, qr) ==
    FloatStringRound(x, prec, p, qr[1], DivModN(MulN(qr[2], p), x.b))
FloatString(x, prec) ==
    IF x.b = One
    THEN SignText(x) \o Utoa(x.a) \o (IF prec > 0 THEN <<".">> \o Zeros(prec) ELSE << >>)
    ELSE FloatStringFrac(x, prec, Pow10(prec), DivModN(x.a, x.b))

\* The value of the decimal digits d[lo..hi], by halves.
RECURSIVE DigitsValue(_, _, _)
DigitsSplit(d, lo, mid, hi) ==
    AddN(MulN(DigitsValue(d, lo, mid), Pow10(hi - mid)), DigitsValue(d, mid + 1, hi))
DigitsValue(d, lo, hi) ==
    IF lo > hi THEN << >>
    ELSE IF lo = hi THEN Nat2Limbs(DigitVal(d[lo]))
    ELSE DigitsSplit(d, lo, (lo + hi) \div 2, hi)

\* nat.scan in base 10 of the whole text t: the digits' value, the number of
\* digits after the point (allowed once, when fracOk) and whether t is a number
DotsOf(t) == {i \in 1..Len(t) : t[i] = "."}
ScanValue10(d) == DigitsValue(d, 1, Len(d))
ScanDigits(t, fracOk) ==
    IF /\ \A i \in 1..Len(t) : IsDigit(t[i]) \/ (fracOk /\ t[i] = ".")
       /\ Cardinality(DotsOf(t)) <= 1
       /\ \E i \in 1..Len(t) : IsDigit(t[i])
    THEN [ok |-> TRUE, a |-> ScanValue10(SelectSeq(t, IsDigit)),
          fcount |-> IF DotsOf(t) = {} THEN 0 ELSE Len(t) - (CHOOSE i \in DotsOf(t) : TRUE)]
    ELSE [ok |-> FALSE, a |-> << >>, fcount |-> 0]

HasSign(s) == s # << >> /\ s[1] \in {"-", "+"}
IsMinus(s) == s # << >> /\ s[1] = "-"
ScanNumber(s, fracOk) == ScanDigits(SubSeq(s, IF HasSign(s) THEN 2 ELSE 1, Len(s)), fracOk)
SlashAt(s) == IF \E i \in 1..Len(s) : s[i] = "/"
              THEN CHOOSE i \in 1..Len(s) : s[i] = "/" /\ \A j \in 1..(i - 1) : s[j] # "/"
              ELSE 0

\* Rat.SetString: "a/b" or a decimal number (exponents and the prefixes
\* 0x, 0o, 0b are not part of any text used here)
SetStringFloat(s, m) ==
    IF ~m.ok THEN [ok |-> FALSE, rat |-> NilRat]
    ELSE [ok |-> TRUE, rat |-> RatNorm(IsMinus(s), m.a, Pow10(m.fcount))]
SetStringFrac(s, num, den) ==
    IF ~num.ok \/ ~den.ok \/ den.a = << >> THEN [ok |-> FALSE, rat |-> NilRat]
    ELSE [ok |-> TRUE, rat |-> RatNorm(IsMinus(s), num.a, den.a)]
SetStringAt(s, sep) ==
    IF sep > 0
    THEN SetStringFrac(s, ScanNumber(SubSeq(s, 1, sep - 1), FALSE),
                       ScanDigits(SubSeq(s, sep + 1, Len(s)), FALSE))
    ELSE SetStringFloat(s, ScanNumber(s, TRUE))
SetString(s) == IF Len(s) = 0 THEN [ok |-> FALSE, rat |-> NilRat] ELSE SetStringAt(s, SlashAt(s))

\* Rat.SetInt64
SetInt64(v) ==
    RatNorm(IsNeg64(v), IF IsNeg64(v) THEN SubN(Pow(Limbs64), v) ELSE v, One)
\* Rat.SetFloat64: exact for a finite float mant * 2^exp, nil otherwise
SetFloat64(f) ==
    IF f.class # "finite" THEN NilRat
    ELSE IF f.exp >= 0 THEN RatNorm(f.neg, MulN(f.mant, Pow2(f.exp)), One)
    ELSE RatNorm(f.neg, f.mant, Pow2(-f.exp))

errInvalidRational == "invalid rational"
errUnsupportedScan == "unsupported Scan, storing driver.Value type into type *big.Rat"
FloatPrec == 18

ScanOk(rat) == [nr |-> [Rat |-> rat, Valid |-> TRUE], err |-> nil]
ScanString(recv, r) ==
    IF ~r.ok THEN [nr |-> recv, err |-> errInvalidRational] ELSE ScanOk(r.rat)
\* func (nr *NullRat) Scan(value interface{}) error, on receiver recv
Scan(recv, v) ==
    IF v.kind = "int64" THEN ScanOk(SetInt64(v.i))
    ELSE IF v.kind = "float64" THEN ScanOk(SetFloat64(v.f))
    ELSE IF v.kind \in {"[]byte", "string"} THEN ScanString(recv, SetString(v.s))
    ELSE IF v.kind = "nil" THEN [nr |-> [Rat |-> NilRat, Valid |-> FALSE], err |-> nil]
    ELSE [nr |-> recv, err |-> errUnsupportedScan]

\* func (nr NullRat) Value() (driver.Value, error); a nil *big.Rat is
\* dereferenced by FloatString: the call panics
Value(n) ==
    IF ~n.Valid THEN [kind |-> "returned", v |-> [kind |-> "nil"], err |-> nil]
    ELSE IF n.Rat.isNil THEN [kind |-> "panic"]
    ELSE [kind |-> "returned", err |-> nil,
          v |-> [kind |-> "string", s |-> FloatString(n.Rat, FloatPrec)]]

NewNullRat(r, valid) == [Rat |-> r, Valid |-> valid]

(***************************************************************************)
(* The caller of NullRat: it holds a NullRat built with NewNullRat, or     *)
(* scans a driver value into a fresh one and keeps that; it takes the      *)
(* Value of what it holds and scans that value into a fresh NullRat.       *)
(***************************************************************************)
RatMax == 3        \* numerators -RatMax..RatMax and denominators 1..RatMax

Abs(n) == IF n < 0 THEN -n ELSE n
SmallRats ==
    {RatNorm(n < 0, Nat2Limbs(Abs(n)), Nat2Limbs(d)) : n \in -RatMax..RatMax, d \in 1..RatMax}
\* values at the edge of 18 decimals: half a unit of the last place, less
\* than half a unit below zero, half a unit below 1, and an integer wider
\* than 64 bits
EdgeRats ==
    {RatNorm(FALSE, One, MulLimb(Pow10(FloatPrec), 2)),
     RatNorm(TRUE, One, Pow10(FloatPrec + 1)),
     RatNorm(FALSE, SubN(MulLimb(Pow10(FloatPrec), 2), One), MulLimb(Pow10(FloatPrec), 2)),
     RatNorm(TRUE, Pow10(20), One)}
Rats == SmallRats \cup EdgeRats
NullRats == {NewNullRat(r, valid) : r \in Rats \cup {NilRat}, valid \in BOOLEAN}

NaN == [class |-> "nan"]
DriverValues ==
    {[kind |-> "nil"],
     [kind |-> "int64", i |-> I64(-7)],
     [kind |-> "float64", f |-> NaN],
     [kind |-> "float64", f |-> [class |-> "finite", neg |-> FALSE, mant |-> <<3>>, exp |-> -2]],
     [kind |-> "[]byte", s |-> <<"1", "/", "3">>],
     [kind |-> "string", s |-> <<"-", ".", "5">>],
     [kind |-> "string", s |-> <<"a", "b", "c">>],
     [kind |-> "string", s |-> << >>],
     [kind |-> "bool"]}

ZeroNullRat == [Rat |-> NilRat, Valid |-> FALSE]

\* exp/orderbook is not in use
PoolIdle ==
    /\ centibips = Nat2Limbs(10000)
    /\ bips = Nat2Limbs(100)
    /\ pool = [type |-> "Stableswap", assetA |-> AssetA, assetB |-> AssetB]
    /\ amount = << >>
    /\ first = NoCall
    /\ second = NoCall

InitRat ==
    /\ PoolIdle
    /\ nr \in NullRats
    /\ value = NoValue
    /\ scanned = NoValue
    /\ builder = NewBuilder
    /\ rowCall = NoRowCall
    /\ threads = NoThreads

\* var r NullRat; err := r.Scan(v)
ScanValue(v) ==
    /\ nr = ZeroNullRat /\ value = NoValue /\ scanned = NoValue
    /\ scanned' = Scan(ZeroNullRat, v)
    /\ UNCHANGED <<poolVars, nr, value, builder, rowCall, threads>>

\* the NullRat just scanned is the one the caller holds from now on
KeepScanned ==
    /\ value = NoValue /\ scanned # NoValue
    /\ scanned.err = nil
    /\ nr' = scanned.nr
    /\ scanned' = NoValue
    /\ UNCHANGED <<poolVars, value, builder, rowCall, threads>>

\* v, err := nr.Value()
CallValue ==
    /\ value = NoValue /\ scanned = NoValue
    /\ value' = Value(nr)
    /\ UNCHANGED <<poolVars, nr, scanned, builder, rowCall, threads>>

\* var result NullRat; err := result.Scan(v)
ScanOfValue ==
    /\ value # NoValue /\ value.kind = "returned" /\ scanned = NoValue
    /\ scanned' = Scan(ZeroNullRat, value.v)
    /\ UNCHANGED <<poolVars, nr, value, builder, rowCall, threads>>

NextRat ==
    \/ \E v \in DriverValues : ScanValue(v)
    \/ KeepScanned
    \/ CallValue
    \/ ScanOfValue

SpecRat == InitRat /\ [][NextRat]_vars

(***************************************************************************)
(* support/db BatchInsertBuilder.  A row is a function from its column     *)
(* names to values; a cell value is <<column, tag>>.  Two versions of Row  *)
(* are in the source: one keeps the rows in b.rows until Exec, one hands   *)
(* each row to a COPY statement prepared at the first call.                *)
(***************************************************************************)
ColumnNames == <<"a", "b", "c">>           \* in the order of sort.Strings
Rank(c) == CHOOSE i \in 1..Len(ColumnNames) : ColumnNames[i] = c
StringLess(c, d) == Rank(c) < Rank(d)

\* sort.Strings
RECURSIVE Insert(_, _)
Insert(sq, c) ==
    IF sq = << >> THEN <<c>>
    ELSE IF StringLess(c, Head(sq)) THEN <<c>> \o sq
    ELSE <<Head(sq)>> \o Insert(Tail(sq), c)
RECURSIVE SortStrings(_)
SortStrings(sq) == IF sq = << >> THEN << >> ELSE Insert(SortStrings(Tail(sq)), Head(sq))

errColumnCount == "invalid number of columns"
errColumnMissing == "column does not exist"
errDatabase == "database error"
panic == "panic: nil pointer dereference"

\* if b.columns == nil { ...; sort.Strings(b.columns) }; order is the order in
\* which range yields the keys of the map
RowColumns(b, order) ==
    IF b.hasColumns THEN b
    ELSE [b EXCEPT !.columns = SortStrings(order), !.hasColumns = TRUE]

RowValues(b, row) == [i \in 1..Len(b.columns) |-> row[b.columns[i]]]

\* RowSlice without the comparison of the two lengths.
RowSlice_NoCountCheck(b, row) ==
    IF \E i \in 1..Len(b.columns) : b.columns[i] \notin DOMAIN row
    THEN [b |-> b, err |-> errColumnMissing]
    ELSE [b |-> [b EXCEPT !.rows = Append(@, RowValues(b, row))], err |-> nil]

\* the checks of the row and b.rows = append(b.rows, rowSlice)
RowSlice(b, row) ==
    IF Len(b.columns) # Cardinality(DOMAIN row)
    THEN [b |-> b, err |-> errColumnCount]
    ELSE IF \E i \in 1..Len(b.columns) : b.columns[i] \notin DOMAIN row
    THEN [b |-> b, err |-> errColumnMissing]
    ELSE [b |-> [b EXCEPT !.rows = Append(@, RowValues(b, row))], err |-> nil]

\* func (b *BatchInsertBuilder) Row, rows kept in memory
Row(b, row, order) == RowSlice(RowColumns(b, order), row)

\* _, err := b.stmt.ExecContext(ctx, rowSlice...); return err.  A nil stmt
\* is dereferenced; the rows of this builder are those the statement took.
RowCopyExec(b, row, execErr) ==
    IF b.stmt = "nil" THEN [b |-> b, err |-> panic]
    ELSE IF execErr THEN [b |-> b, err |-> errDatabase]
    ELSE [b |-> [b EXCEPT !.rows = Append(@, RowValues(b, row))], err |-> nil]
RowCopySlice(b, row, execErr) ==
    IF Len(b.columns) # Cardinality(DOMAIN row)
    THEN [b |-> b, err |-> errColumnCount]
    ELSE IF \E i \in 1..Len(b.columns) : b.columns[i] \notin DOMAIN row
    THEN [b |-> b, err |-> errColumnMissing]
    ELSE RowCopyExec(b, row, execErr)
\* func (b *BatchInsertBuilder) initStmt
initStmt(b, initErr) == IF initErr THEN b ELSE [b EXCEPT !.stmt = "prepared"]
\* func (b *BatchInsertBuilder) Row, rows copied as they come
RowCopy(b, row, order, initErr, execErr) ==
    IF ~b.hasColumns /\ initErr
    THEN [b |-> initStmt(RowColumns(b, order), initErr), err |-> errDatabase]
    ELSE RowCopySlice(IF b.hasColumns THEN b ELSE initStmt(RowColumns(b, order), initErr),
                      row, execErr)

\* func (b *BatchInsertBuilder) Exec, rows kept in memory: nothing to do
\* without rows; the rows are cleared when the database took them
Exec(b, dbErr) ==
    IF Len(b.rows) = 0 THEN [b |-> b, err |-> nil]
    ELSE IF dbErr THEN [b |-> b, err |-> errDatabase]
    ELSE [b |-> [b EXCEPT !.rows = << >>], err |-> nil]

(***************************************************************************)
(* The caller of the builder: up to MaxRows calls of Row on one builder,   *)
(* and Exec of the rows collected in memory.                               *)
(***************************************************************************)
MaxRows == 3       \* calls of Row on one builder

Tags == {1, 2}
ColumnSet == {ColumnNames[i] : i \in 1..Len(ColumnNames)}
RowMaps == {[c \in S |-> <<c, tag>>] : S \in SUBSET ColumnSet, tag \in Tags}
\* the orders in which range may yield the keys of a map
Orders(S) == {sq \in [1..Cardinality(S) -> S] : \A i, j \in 1..Cardinality(S) : i # j => sq[i] # sq[j]}

NewCopyBuilder == [NewBuilder EXCEPT !.stmt = "nil"]

InitRow ==
    /\ PoolIdle
    /\ nr = ZeroNullRat /\ value = NoValue /\ scanned = NoValue
    /\ builder \in {NewBuilder, NewCopyBuilder}
    /\ rowCall = NoRowCall
    /\ threads = NoThreads

RowCallOf(row, r) ==
    [fn |-> "Row", row |-> row, err |-> r.err, before |-> builder, n |-> rowCall.n + 1]

CallRow(row, order) ==
    /\ builder.stmt = "none" /\ rowCall.n < MaxRows
    /\ builder' = Row(builder, row, order).b
    /\ rowCall' = RowCallOf(row, Row(builder, row, order))
    /\ UNCHANGED <<poolVars, nr, value, scanned, threads>>

CallRowCopy(row, order, initErr, execErr) ==
    /\ builder.stmt # "none" /\ rowCall.n < MaxRows
    /\ builder' = RowCopy(builder, row, order, initErr, execErr).b
    /\ rowCall' = RowCallOf(row, RowCopy(builder, row, order, initErr, execErr))
    /\ UNCHANGED <<poolVars, nr, value, scanned, threads>>

CallExec(dbErr) ==
    /\ builder.stmt = "none" /\ rowCall.fn = "Row"
    /\ builder' = Exec(builder, dbErr).b
    /\ rowCall' = [fn |-> "Exec", err |-> Exec(builder, dbErr).err, n |-> rowCall.n]
    /\ UNCHANGED <<poolVars, nr, value, scanned, threads>>

NextRow ==
    \/ \E row \in RowMaps : \E order \in Orders(DOMAIN row) : CallRow(row, order)
    \/ \E row \in RowMaps : \E order \in Orders(DOMAIN row) :
           \E initErr, execErr \in BOOLEAN : CallRowCopy(row, order, initErr, execErr)
    \/ \E dbErr \in BOOLEAN : CallExec(dbErr)

SpecRow == InitRow /\ [][NextRow]_vars

(***************************************************************************)
(* Concurrent calls of the calculators.  Each thread runs its call one     *)
(* uint256 operation at a time; an operation reads its operands and writes *)
(* its destination, each of which is a local of the thread or one of the   *)
(* package variables centibips and bips.  A local is named after the       *)
(* uint256.Int it points to: denom is X and numer is Y in                  *)
(* CalculatePoolPayout, denom is Y and numer is X in                       *)
(* poolExpectationCentibips, rounded is result in the slippage function.   *)
(***************************************************************************)
Globals == {"centibips", "bips"}
Locals == {"X", "Y", "F", "x", "f", "t", "result", "rem", "unrounded", "rounded", "S"}
ALUOps == {"Add", "Sub", "Mul", "Div", "Mod", "Abs", "Clone"}

\* dst.op(a, b)
Ins(op, dst, a, b) == [op |-> op, dst |-> dst, a |-> a, b |-> b, to |-> 0]
\* a test of local a that returns or jumps to instruction "to"
Jmp(op, a, to) == [op |-> op, dst |-> a, a |-> a, b |-> a, to |-> to]

\* f := new(uint256.Int).Sub(centibips, F), with centibips itself as the receiver
FeeComplement_InPlace == Ins("Sub", "centibips", "centibips", "F")

\* f := new(uint256.Int).Sub(centibips, F)
FeeComplement == Ins("Sub", "f", "centibips", "F")

PayoutProgram ==
    << Jmp("FailIfDepositOverflows", "x", 0),
       FeeComplement,
       Ins("Mul", "X", "X", "centibips"),
       Ins("Mul", "t", "x", "f"),
       Ins("Add", "X", "X", "t"),
       Jmp("FailIfZero", "X", 0),
       Ins("Mul", "Y", "Y", "x"),
       Ins("Mul", "Y", "Y", "f"),
       Ins("Div", "result", "Y", "X"),
       Jmp("JumpUnlessSlippage", "t", 22),
       Ins("Mod", "t", "Y", "X"),
       Jmp("JumpIfZero", "t", 22),
       Ins("Mul", "unrounded", "Y", "centibips"),
       Ins("Div", "unrounded", "unrounded", "X"),
       Ins("Mul", "rounded", "result", "centibips"),
       Ins("Sub", "S", "unrounded", "rounded"),
       Ins("Abs", "S", "S", "S"),
       Ins("Mul", "S", "S", "centibips"),
       Ins("Div", "S", "S", "unrounded"),
       Ins("Div", "S", "S", "bips"),
       Jmp("NarrowSlippage", "S", 0),
       Jmp("ReturnPayout", "result", 0) >>

CentibipsProgram ==
    << Jmp("FailIfNotBelowReserve", "x", 0),
       FeeComplement,
       Ins("Sub", "Y", "Y", "x"),
       Ins("Mul", "Y", "Y", "f"),
       Jmp("FailIfZero", "Y", 0),
       Ins("Mul", "X", "X", "x"),
       Ins("Mul", "X", "X", "centibips"),
       Ins("Mul", "X", "X", "centibips"),
       Ins("Div", "result", "X", "Y"),
       Ins("Mod", "rem", "result", "centibips"),
       Jmp("JumpIfZero", "rem", 14),
       Ins("Add", "result", "result", "centibips"),
       Ins("Sub", "result", "result", "rem") >>

ExpectationProgram ==
    CentibipsProgram \o
    << Ins("Div", "result", "result", "centibips"),
       Jmp("ReturnExpectation", "result", 0) >>

SlippageProgram ==
    CentibipsProgram \o
    << Jmp("ReturnZeroIfZero", "rem", 0),
       Ins("Clone", "unrounded", "result", "result"),
       Ins("Sub", "unrounded", "unrounded", "centibips"),
       Ins("Add", "unrounded", "unrounded", "rem"),
       Ins("Sub", "S", "centibips", "rem"),
       Ins("Mul", "S", "S", "centibips"),
       Ins("Div", "S", "S", "unrounded"),
       Ins("Div", "S", "S", "bips"),
       Jmp("ReturnSlippage", "S", 0) >>

Program(fn) ==
    CASE fn = "CalculatePoolPayout" -> PayoutProgram
      [] fn = "calculatePoolExpectation" -> ExpectationProgram
      [] fn = "CalculatePoolExpectationRoundingSlippage" -> SlippageProgram

\* the (0, false) or (0, 0, false) of a failed call
FailOf(fn) ==
    IF fn = "CalculatePoolPayout" THEN PayoutFail ELSE [val |-> << >>, ok |-> FALSE]

\* X, Y := uint256.NewInt(uint64(reserveA)), uint256.NewInt(uint64(reserveB))
\* F, x := uint256.NewInt(uint64(feeBips)), uint256.NewInt(uint64(amount))
NewInts(a, b, amt, fee) ==
    [r \in Locals |->
        CASE r = "X" -> a
          [] r = "Y" -> b
          [] r = "F" -> Int32ToUint64(fee)
          [] r = "x" -> amt
          [] OTHER -> << >>]

\* A call of calculator fn, from makeTrade when wrap holds.
Started(call, fn, a, b, amt, fee, slip, wrap) ==
    [call |-> call, fn |-> fn, wrap |-> wrap, reserveA |-> a, reserveB |-> b,
     amount |-> amt, slip |-> slip, pc |-> 1, regs |-> NewInts(a, b, amt, fee),
     roundingSlippageBips |-> << >>, ok |-> TRUE, done |-> FALSE, ret |-> NoValue]

Returned(t, ret) ==
    [t EXCEPT !.done = TRUE, !.ret = IF t.wrap THEN TradeResult(ret) ELSE ret]

\* makeTrade up to the call of the calculator
TradeStarted(call, p, asset, tradeType, amt) ==
    IF p.type # "ConstantProduct" \/ Le64(amt, << >>)
          \/ tradeType \notin {tradeTypeDeposit, tradeTypeExpectation}
    THEN [call |-> call, done |-> TRUE,
          ret |-> makeTrade(centibips, bips, p, asset, tradeType, amt)]
    ELSE Started(call,
                 IF tradeType = tradeTypeDeposit THEN "CalculatePoolPayout"
                 ELSE "calculatePoolExpectation",
                 IF p.assetA # asset THEN p.ReserveB ELSE p.ReserveA,
                 IF p.assetA # asset THEN p.ReserveA ELSE p.ReserveB,
                 amt, p.Fee, FALSE, TRUE)

StartedCall(c) ==
    IF c.fn = "makeTrade" THEN TradeStarted(c, c.pool, c.asset, c.tradeType, c.amount)
    ELSE Started(c, c.fn, c.reserveA, c.reserveB, c.amount, c.feeBips,
                 c.fn = "CalculatePoolPayout" /\ c.slip, FALSE)

Read(t, name) ==
    IF name = "centibips" THEN centibips
    ELSE IF name = "bips" THEN bips
    ELSE t.regs[name]

ALU(op, a, b) ==
    CASE op = "Add" -> U256Add(a, b)
      [] op = "Sub" -> U256Sub(a, b)
      [] op = "Mul" -> U256Mul(a, b)
      [] op = "Div" -> U256Div(a, b)
      [] op = "Mod" -> U256Mod(a, b)
      [] op = "Abs" -> U256Abs(a)
      [] op = "Clone" -> a

\* the operation writes its destination: a local, or a package variable
Store(i, t, dst, v) ==
    /\ centibips' = IF dst = "centibips" THEN v ELSE centibips
    /\ bips' = IF dst = "bips" THEN v ELSE bips
    /\ threads' = [threads EXCEPT ![i] =
           [t EXCEPT !.pc = t.pc + 1,
                     !.regs = IF dst \in Globals THEN t.regs
                              ELSE [t.regs EXCEPT ![dst] = v]]]

Goto(t, to) == [t EXCEPT !.pc = to]

\* the tests and returns of the three calculators
Control(t, op, a, to) ==
    CASE op = "FailIfDepositOverflows" ->
             IF Gt64(t.amount, Sub64(MaxInt64, t.reserveA))
             THEN Returned(t, FailOf(t.fn)) ELSE Goto(t, t.pc + 1)
      [] op = "FailIfNotBelowReserve" ->
             IF Ge64(t.amount, t.reserveB)
             THEN Returned(t, FailOf(t.fn)) ELSE Goto(t, t.pc + 1)
      [] op = "FailIfZero" ->
             IF IsZero(t.regs[a]) THEN Returned(t, FailOf(t.fn)) ELSE Goto(t, t.pc + 1)
      [] op = "JumpUnlessSlippage" ->
             IF t.slip THEN Goto(t, t.pc + 1) ELSE Goto(t, to)
      [] op = "JumpIfZero" ->
             IF IsZero(t.regs[a]) THEN Goto(t, to) ELSE Goto(t, t.pc + 1)
      [] op = "ReturnZeroIfZero" ->
             IF IsZero(t.regs[a]) THEN Returned(t, [val |-> << >>, ok |-> TRUE])
             ELSE Goto(t, t.pc + 1)
      [] op = "NarrowSlippage" ->
             [t EXCEPT !.pc = t.pc + 1,
                       !.roundingSlippageBips = Uint64(t.regs[a]),
                       !.ok = IsUint64(t.regs[a]) /\ ~IsNeg64(Uint64(t.regs[a]))]
      [] op = "ReturnPayout" ->
             Returned(t, PayoutReturn(t.regs[a], t.roundingSlippageBips, t.ok))
      [] op = "ReturnExpectation" -> Returned(t, ExpectationReturn(t.regs[a]))
      [] op = "ReturnSlippage" -> Returned(t, SlippageReturn(t.regs[a]))

Operation(i, t, ins) ==
    IF ins.op \in ALUOps
    THEN Store(i, t, ins.dst, ALU(ins.op, Read(t, ins.a), Read(t, ins.b)))
    ELSE /\ threads' = [threads EXCEPT ![i] = Control(t, ins.op, ins.a, ins.to)]
         /\ UNCHANGED <<centibips, bips>>

MaxThreads == 2

ThreadPool ==
    [type |-> "ConstantProduct", assetA |-> AssetA, assetB |-> AssetB,
     ReserveA |-> I64(300), ReserveB |-> I64(200), Fee |-> I64(30)]
ThreadCalls ==
    { [fn |-> "CalculatePoolPayout", reserveA |-> I64(200), reserveB |-> I64(300),
       amount |-> I64(3), feeBips |-> I64(30), slip |-> TRUE],
      [fn |-> "CalculatePoolExpectationRoundingSlippage", reserveA |-> I64(200),
       reserveB |-> I64(300), amount |-> I64(3), feeBips |-> I64(30)],
      [fn |-> "makeTrade", pool |-> ThreadPool, asset |-> AssetB,
       tradeType |-> tradeTypeExpectation, amount |-> I64(3)] }

InitThreads ==
    /\ PoolIdle
    /\ nr = ZeroNullRat /\ value = NoValue /\ scanned = NoValue
    /\ builder = NewBuilder
    /\ rowCall = NoRowCall
    /\ threads = NoThreads

\* go f(args): one more thread, about to run its call
Go(c) ==
    /\ Len(threads) < MaxThreads
    /\ threads' = Append(threads, StartedCall(c))
    /\ UNCHANGED <<centibips, bips, pool, amount, first, second, dbVars>>

\* thread i runs the next operation of its call
Step(i) ==
    /\ ~threads[i].done
    /\ Operation(i, threads[i], Program(threads[i].fn)[threads[i].pc])
    /\ UNCHANGED <<pool, amount, first, second, dbVars>>

NextThreads ==
    \/ \E c \in ThreadCalls : Go(c)
    \/ \E i \in 1..Len(threads) : Step(i)

SpecThreads == InitThreads /\ [][NextThreads]_vars

(***************************************************************************)
(* The properties.  Amounts and reserves are compared as the mathematical  *)
(* integers they denote; N(n) is the natural number n.                     *)
(***************************************************************************)
N(n) == Nat2Limbs(n)
Floor(n, d) == DivN(n, d)
Ceil(n, d) == IF ModN(n, d) = << >> THEN DivN(n, d) ELSE AddN(DivN(n, d), N(1))
Positive64(v) == v # << >> /\ ~IsNeg64(v)
FeeInRange(fee) == Lt(fee, N(10000))                 \* 0 <= feeBips < 10000
\* 10000 - feeBips, for feeBips <= 10000
OneMinusFee(fee) == SubN(N(10000), fee)

IsPayout(c) == c.fn = "CalculatePoolPayout"
IsExpectation(c) == c.fn = "calculatePoolExpectation"
IsTrade(c) == c.fn = "makeTrade"
\* makeTrade's (reserveIn, reserveOut) for the asset traded
ReserveIn(c) == IF c.asset = pool.assetA THEN pool.ReserveA ELSE pool.ReserveB
ReserveOut(c) == IF c.asset = pool.assetA THEN pool.ReserveB ELSE pool.ReserveA

\* C1's and C3's domain: amountIn > 0, amountIn <= MaxInt64 - reserveIn, fee in range
PayoutDomain(c) ==
    /\ Positive64(c.amount)
    /\ Le(AddN(c.reserveA, c.amount), MaxInt64)
    /\ FeeInRange(c.feeBips)

PayoutDenominator(c) ==
    AddN(MulN(N(10000), c.reserveA), MulN(OneMinusFee(c.feeBips), c.amount))
ExactPayout(c) ==
    Floor(MulN(MulN(OneMinusFee(c.feeBips), c.reserveB), c.amount), PayoutDenominator(c))

\* C1: in its domain (reserves in [0, MaxInt64], amountIn > 0, amountIn <=
\* MaxInt64 - reserveIn, fee in [0, 10000), denominator not zero)
\* CalculatePoolPayout returns ok = true and the floor of the exact quotient
\* (10000 - fee) * reserveOut * amountIn / (10000 * reserveIn + (10000 - fee) * amountIn).
C1_PayoutIsExactFloor ==
    (IsPayout(first) /\ PayoutDomain(first) /\ PayoutDenominator(first) # << >>)
        => first.ret.ok /\ first.ret.val = ExactPayout(first)

\* C1's case: the documented example, 1000/1000 reserves, 100 in, no fee, 90 out.
C1_Witness ==
    /\ IsPayout(first) /\ PayoutDomain(first)
    /\ first.reserveA = N(1000) /\ first.reserveB = N(1000)
    /\ first.amount = N(100) /\ first.feeBips = N(0)
    /\ first.ret.ok /\ first.ret.val = N(90)

ExpectationDomain(c) ==
    /\ Positive64(c.amount)
    /\ Lt(c.amount, c.reserveB)
    /\ FeeInRange(c.feeBips)

ExactExpectation(c) ==
    Ceil(MulN(MulN(N(10000), c.reserveA), c.amount),
         MulN(SubN(c.reserveB, c.amount), OneMinusFee(c.feeBips)))

\* C2: for 0 < desiredOut < reserveOut and fee in [0, 10000), a successful
\* calculatePoolExpectation returns the exact ceiling of
\* 10000 * reserveIn * desiredOut / ((reserveOut - desiredOut) * (10000 - fee)),
\* also when the exact value exceeds an integer by less than 1/10000.
C2_ExpectationIsExactCeiling ==
    (IsExpectation(first) /\ ExpectationDomain(first) /\ first.ret.ok)
        => first.ret.val = ExactExpectation(first)

C4_NeverUnderDeposit ==
    (IsExpectation(first) /\ Positive64(first.amount) /\ first.ret.ok
        /\ Positive64(first.reserveA))
        => /\ Positive64(first.ret.val)
           /\ (IsPayout(second) /\ second.ret.ok) => Le(first.amount, second.ret.val)

\* C5: for a fixed pool and valid (positive) amounts, when both calls succeed
\* the payout is non-decreasing in amountIn and the expectation is
\* non-decreasing in desiredOut.
C5_Monotone ==
    (/\ (IsPayout(first) /\ IsPayout(second)) \/ (IsExpectation(first) /\ IsExpectation(second))
     /\ Positive64(first.amount) /\ Positive64(second.amount)
     /\ Le(first.amount, second.amount)
     /\ first.ret.ok /\ second.ret.ok)
        => Le64(first.ret.val, second.ret.val)

\* C5's case: two successful expectations on one pool, the larger request
\* needing the strictly larger deposit.
C5_Witness ==
    /\ IsExpectation(first) /\ IsExpectation(second)
    /\ first.ret.ok /\ second.ret.ok
    /\ Positive64(first.amount) /\ Lt(first.amount, second.amount)
    /\ Lt(first.ret.val, second.ret.val)

\* C6: with fee 0 a successful payout of a valid amount keeps the constant
\* product up to one floor:
\*   (reserveIn + amountIn) * (reserveOut - amountOut) >= reserveIn * reserveOut
\*   (reserveIn + amountIn) * (reserveOut - amountOut - 1) < reserveIn * reserveOut
\* stated without subtraction: with S = reserveIn + amountIn and P = reserveIn *
\* reserveOut,  S * reserveOut >= P + S * amountOut  and
\* S * reserveOut < P + S * (amountOut + 1).
C6_ConstantProduct ==
    (IsPayout(first) /\ first.feeBips = N(0) /\ Positive64(first.amount) /\ first.ret.ok)
        => LET S  == AddN(first.reserveA, first.amount)
               P  == MulN(first.reserveA, first.reserveB)
               SY == MulN(S, first.reserveB)
           IN  /\ Le(AddN(P, MulN(S, first.ret.val)), SY)
               /\ Lt(SY, AddN(P, MulN(S, AddN(first.ret.val, N(1)))))

\* C6's case: a fee-less payout that the floor made inexact (1000 * 1000 <
\* 1100 * 910).
C6_Witness ==
    /\ IsPayout(first) /\ first.feeBips = N(0) /\ first.ret.ok
    /\ first.reserveA = N(1000) /\ first.reserveB = N(1000) /\ first.amount = N(100)
    /\ first.ret.val = N(90)

TradeOk(c) == IsTrade(c) /\ c.ret.err = nil

\* C7, on pools whose output reserve is positive: a successful Deposit trade
\* pays out strictly less than the output reserve, and an Expectation trade
\* succeeds only for an amount strictly less than the output reserve.
C7_NeverWholeReserve ==
    (IsTrade(first) /\ Positive64(ReserveOut(first))) =>
        /\ (TradeOk(first) /\ first.tradeType = tradeTypeDeposit)
               => Lt(first.ret.val, ReserveOut(first))
        /\ (TradeOk(first) /\ first.tradeType = tradeTypeExpectation)
               => Lt(first.amount, ReserveOut(first))

ExpectationTooLarge(c) ==
    /\ IsTrade(c) /\ pool.type = "ConstantProduct"
    /\ c.tradeType = tradeTypeExpectation
    /\ Ge64(c.amount, ReserveOut(c))

\* C8 as claimed: an Expectation trade whose amount is not strictly less than
\* the output reserve fails with errBadAmount and returns no deposit.
C8_TooLargeIsBadAmount ==
    ExpectationTooLarge(first)
        => first.ret.err = errBadAmount /\ first.ret.val = << >>

\* C8 amended: an Expectation trade whose amount is not strictly less than the
\* output reserve returns no deposit and fails with errPoolOverflows when the
\* amount is positive (with errBadAmount only when the amount is <= 0).
C8_TooLargeIsPoolOverflow ==
    ExpectationTooLarge(first)
        => /\ first.ret.val = << >>
           /\ first.ret.err = IF Positive64(first.amount) THEN errPoolOverflows ELSE errBadAmount

\* C8's case: the boundary, a positive amount equal to the output reserve.
C8_Witness ==
    /\ ExpectationTooLarge(first)
    /\ Positive64(first.amount) /\ first.amount = ReserveOut(first)
    /\ first.ret.err = errPoolOverflows

\* C9: when amountIn > MaxInt64 - reserveIn, CalculatePoolPayout returns
\* (0, false) for every reserveOut and fee, and a Deposit makeTrade returns
\* errPoolOverflows with amount 0.
C9_DepositOverflow ==
    /\ (IsPayout(first) /\ Positive64(first.amount)
            /\ Lt(MaxInt64, AddN(first.reserveA, first.amount)))
           => ~first.ret.ok /\ first.ret.val = << >>
    /\ (IsTrade(first) /\ pool.type = "ConstantProduct" /\ Positive64(first.amount)
            /\ first.tradeType = tradeTypeDeposit
            /\ Lt(MaxInt64, AddN(ReserveIn(first), first.amount)))
           => first.ret.err = errPoolOverflows /\ first.ret.val = << >>

\* C9's case: amountIn = MaxInt64 into a reserve of 1, as a Deposit trade.
C9_Witness ==
    /\ IsTrade(first) /\ first.tradeType = tradeTypeDeposit
    /\ pool.type = "ConstantProduct"
    /\ first.amount = MaxInt64 /\ ReserveIn(first) = N(1)
    /\ first.ret.err = errPoolOverflows

\* C10: makeTrade validates in a fixed order: a pool that is not constant
\* product gives errBadPoolType whatever the other arguments; otherwise an
\* amount <= 0 gives errBadAmount whatever the direction; otherwise an unknown
\* direction gives errBadTradeType; each with amount 0 and an error other than
\* errPoolOverflows.
C10_ValidationOrder ==
    IsTrade(first) =>
        LET invalid == \/ pool.type # "ConstantProduct"
                       \/ ~Positive64(first.amount)
                       \/ first.tradeType \notin {tradeTypeDeposit, tradeTypeExpectation}
            expected == IF pool.type # "ConstantProduct" THEN errBadPoolType
                        ELSE IF ~Positive64(first.amount) THEN errBadAmount
                        ELSE errBadTradeType
        IN  invalid => /\ first.ret.err = expected
                       /\ first.ret.val = << >>
                       /\ first.ret.err # errPoolOverflows

\* C10's case: every check fails at once (wrong pool type, amount <= 0,
\* unknown direction) and the pool type is what is reported.
C10_Witness ==
    /\ IsTrade(first) /\ pool.type # "ConstantProduct"
    /\ ~Positive64(first.amount)
    /\ first.tradeType \notin {tradeTypeDeposit, tradeTypeExpectation}
    /\ first.ret.err = errBadPoolType

IsSlippage(c) == c.fn = "CalculatePoolExpectationRoundingSlippage"

\* C11: for reserveIn = 200, reserveOut = 300, desiredOut = 3, feeBips = 30
\* CalculatePoolExpectationRoundingSlippage returns ok = true and 4778.
C11_SlippageExample ==
    (IsSlippage(first) /\ first.reserveA = N(200) /\ first.reserveB = N(300)
        /\ first.amount = N(3) /\ first.feeBips = N(30))
        => first.ret.ok /\ first.ret.val = N(4778)

PayoutNumerator(c) == MulN(MulN(OneMinusFee(c.feeBips), c.reserveB), c.amount)
\* floor(10000 * (E - floor(E)) / E) for E = numerator / denominator, which is
\* floor(10000 * (numerator mod denominator) / numerator); 0 when E = 0
ExactPayoutSlippage(c) ==
    IF PayoutNumerator(c) = << >> THEN << >>
    ELSE Floor(MulN(N(10000), ModN(PayoutNumerator(c), PayoutDenominator(c))),
               PayoutNumerator(c))

\* C12: a successful CalculatePoolPayout of a valid amount with
\* calculateRoundingSlippage = true returns the slippage
\* floor(10000 * (E - floor(E)) / E), E the exact payout, and at most 10000.
C12_PayoutSlippageInBips ==
    (IsPayout(first) /\ first.slip /\ PayoutDomain(first) /\ first.ret.ok)
        => /\ first.ret.slippage = ExactPayoutSlippage(first)
           /\ Le(first.ret.slippage, N(10000))

AbsDiff(p, q) == IF Le(p, q) THEN SubN(q, p) ELSE SubN(p, q)
\* |x - y| < 10^-18 for rationals x and y
Within18(x, y) ==
    Lt(MulN(IF x.neg = y.neg THEN AbsDiff(MulN(x.a, y.b), MulN(y.a, x.b))
            ELSE AddN(MulN(x.a, y.b), MulN(y.a, x.b)),
            Pow10(FloatPrec)),
       MulN(x.b, y.b))
\* x has a decimal expansion of at most 18 places
Decimal18(x) == ModN(Pow10(FloatPrec), x.b) = << >>

\* C13: for every NullRat nr, Value() returns no error (and nil when nr is
\* not valid); Scan of that value into a fresh NullRat returns no error and
\* yields Valid = nr.Valid, a nil Rat when nr is not valid, and when nr is
\* valid a Rat equal to nr.Rat to 18 decimal places, exactly equal when
\* nr.Rat has at most 18 decimal places.
C13_ValueScanRoundTrip ==
    /\ value # NoValue
           => /\ value.kind = "returned"
              /\ value.err = nil
              /\ ~nr.Valid => value.v.kind = "nil"
    /\ (value # NoValue /\ scanned # NoValue)
           => /\ scanned.err = nil
              /\ scanned.nr.Valid = nr.Valid
              /\ ~nr.Valid => scanned.nr.Rat.isNil
              /\ nr.Valid => /\ ~scanned.nr.Rat.isNil
                             /\ Within18(scanned.nr.Rat, nr.Rat)
                             /\ Decimal18(nr.Rat) => scanned.nr.Rat = nr.Rat

\* the names in S in the order of sort.Strings
SortedColumns(S) == SelectSeq(ColumnNames, LAMBDA c : c \in S)
ColumnsOf(b) == {b.columns[i] : i \in 1..Len(b.columns)}

\* C14: Row fixes the columns at the first call, as the sorted keys of the
\* first row; a later row whose key set differs from the columns (in count,
\* or in a column with the same count) is rejected with an error and not
\* added to the batch; an accepted row is stored with its values in the
\* order of the sorted columns.
C14_RowColumnSet ==
    rowCall.fn = "Row" =>
        /\ builder.hasColumns
        /\ builder.columns = IF rowCall.before.hasColumns THEN rowCall.before.columns
                             ELSE SortedColumns(DOMAIN rowCall.row)
        /\ builder.columns = SortedColumns(ColumnsOf(builder))
        /\ (rowCall.before.hasColumns /\ DOMAIN rowCall.row # ColumnsOf(rowCall.before))
               => /\ rowCall.err \in {errColumnCount, errColumnMissing}
                  /\ builder.rows = rowCall.before.rows
        /\ rowCall.err = nil
               => /\ DOMAIN rowCall.row = ColumnsOf(builder)
                  /\ builder.rows = Append(rowCall.before.rows,
                         [i \in 1..Len(builder.columns) |->
                              rowCall.row[SortedColumns(DOMAIN rowCall.row)[i]]])
        /\ rowCall.err # nil => builder.rows = rowCall.before.rows

\* C14's case: after two accepted rows of two columns, a third row with the
\* same number of columns but another column is rejected.
C14_Witness ==
    /\ rowCall.fn = "Row" /\ rowCall.n = 3
    /\ Len(builder.columns) = 2 /\ Len(builder.rows) = 2
    /\ Cardinality(DOMAIN rowCall.row) = 2
    /\ rowCall.err = errColumnMissing

\* The quotient before it is narrowed to 64 bits: result.Div(result, centibips)
\* of calculatePoolExpectation, 0 when poolExpectationCentibips fails.
WideOf(r) == IF r.ok THEN U256Div(r.result, centibips) ELSE << >>
WideExpectation(a, b, amt, fee) ==
    WideOf(poolExpectationCentibips(centibips, a, b, amt, fee))
NarrowDomain(a, b, amt, fee) ==
    /\ ~IsNeg64(a) /\ ~IsNeg64(b)
    /\ FeeInRange(fee)
    /\ Positive64(amt)

\* C15: for reserves in [0, MaxInt64], fee in [0, 10000) and amount > 0, a
\* CalculatePoolPayout or calculatePoolExpectation that returns ok = true
\* returns an amount in [0, MaxInt64]; when the quotient before narrowing
\* exceeds MaxInt64 the call returns ok = false, and makeTrade returns
\* errPoolOverflows with amount 0.
C15_NarrowingNeverWraps ==
    /\ (IsPayout(first)
          /\ NarrowDomain(first.reserveA, first.reserveB, first.amount, first.feeBips))
        => /\ first.ret.ok => Le(first.ret.val, MaxInt64)
           /\ (PayoutDenominator(first) # << >> /\ Lt(MaxInt64, ExactPayout(first)))
                  => ~first.ret.ok
    /\ (IsExpectation(first)
          /\ NarrowDomain(first.reserveA, first.reserveB, first.amount, first.feeBips))
        => /\ first.ret.ok => Le(first.ret.val, MaxInt64)
           /\ Lt(MaxInt64, WideExpectation(first.reserveA, first.reserveB,
                                           first.amount, first.feeBips))
                  => ~first.ret.ok
    /\ (IsTrade(first) /\ pool.type = "ConstantProduct"
          /\ NarrowDomain(ReserveIn(first), ReserveOut(first), first.amount, pool.Fee))
        => /\ first.ret.err = nil => Le(first.ret.val, MaxInt64)
           /\ (first.tradeType = tradeTypeExpectation
                 /\ Lt(MaxInt64, WideExpectation(ReserveIn(first), ReserveOut(first),
                                                 first.amount, pool.Fee)))
                  => first.ret.err = errPoolOverflows /\ first.ret.val = << >>

\* C15's case: half of a 200 reserve is asked from a pool whose other reserve
\* is MaxInt64; the deposit needed is above MaxInt64 and the call fails.
C15_Witness ==
    /\ IsExpectation(first)
    /\ first.reserveA = MaxInt64 /\ first.reserveB = N(200)
    /\ first.amount = N(100) /\ first.feeBips = N(30)
    /\ Lt(MaxInt64, WideExpectation(first.reserveA, first.reserveB,
                                    first.amount, first.feeBips))
    /\ ~first.ret.ok

\* reserves >= 0, amount >= 0, fee in [0, 10000]: the values the two
\* denominators are defined on
DenomDomain(a, b, amt, fee) ==
    /\ ~IsNeg64(a) /\ ~IsNeg64(b) /\ ~IsNeg64(amt)
    /\ Le(fee, N(10000))
\* (reserveOut - desiredOut) * (10000 - feeBips) = 0, for desiredOut <= reserveOut
ExpectationDenominatorZero(b, amt, fee) ==
    /\ Le(amt, b)
    /\ MulN(SubN(b, amt), OneMinusFee(fee)) = << >>
\* 10000 * reserveIn + (10000 - feeBips) * amountIn = 0
PayoutDenominatorZero(a, amt, fee) ==
    AddN(MulN(N(10000), a), MulN(OneMinusFee(fee), amt)) = << >>

\* C16: calculatePoolExpectation returns ok = false whenever
\* (reserveOut - desiredOut) * (10000 - feeBips) = 0, CalculatePoolPayout
\* returns (0, 0, false) whenever 10000 * reserveIn + (10000 - feeBips) *
\* amountIn = 0, and makeTrade returns amount 0 with errPoolOverflows for a
\* trade whose denominator is zero.
C16_ZeroDenominatorFails ==
    /\ (IsExpectation(first)
          /\ DenomDomain(first.reserveA, first.reserveB, first.amount, first.feeBips)
          /\ ExpectationDenominatorZero(first.reserveB, first.amount, first.feeBips))
        => ~first.ret.ok
    /\ (IsPayout(first)
          /\ DenomDomain(first.reserveA, first.reserveB, first.amount, first.feeBips)
          /\ PayoutDenominatorZero(first.reserveA, first.amount, first.feeBips))
        => first.ret = PayoutFail
    /\ (IsTrade(first) /\ pool.type = "ConstantProduct" /\ Positive64(first.amount)
          /\ DenomDomain(ReserveIn(first), ReserveOut(first), first.amount, pool.Fee)
          /\ \/ /\ first.tradeType = tradeTypeExpectation
                /\ ExpectationDenominatorZero(ReserveOut(first), first.amount, pool.Fee)
             \/ /\ first.tradeType = tradeTypeDeposit
                /\ PayoutDenominatorZero(ReserveIn(first), first.amount, pool.Fee))
        => first.ret = [val |-> << >>, err |-> errPoolOverflows]

\* C16's case: 100 of a 200 reserve is asked at a fee of 100%; the
\* denominator (200 - 100) * (10000 - 10000) is zero and the call fails.
C16_Witness ==
    /\ IsExpectation(first)
    /\ first.reserveB = N(200) /\ first.amount = N(100) /\ first.feeBips = N(10000)
    /\ ExpectationDenominatorZero(first.reserveB, first.amount, first.feeBips)
    /\ ~first.ret.ok

\* C17: makeTrade takes (ReserveA, ReserveB) as (reserveIn, reserveOut) when
\* the asset deposited is the pool's assetA and (ReserveB, ReserveA) when it is
\* assetB, and the same trade on the pool with its two assets and their
\* reserves exchanged returns the same amount and the same error.
C17_OrientationIsPositional ==
    /\ (IsTrade(first) /\ IsTrade(second)) => second.ret = first.ret
    /\ (IsTrade(first) /\ pool.type = "ConstantProduct" /\ Positive64(first.amount))
        => /\ first.tradeType = tradeTypeDeposit
                => first.ret = TradeResult(CalculatePoolPayout(centibips, bips,
                                   ReserveIn(first), ReserveOut(first), first.amount,
                                   pool.Fee, FALSE))
           /\ first.tradeType = tradeTypeExpectation
                => first.ret = TradeResult(calculatePoolExpectation(centibips,
                                   ReserveIn(first), ReserveOut(first), first.amount,
                                   pool.Fee))

\* C17's case: a successful trade of the pool's second asset, on a pool with
\* two different reserves, made again on the exchanged pool.
C17_Witness ==
    /\ IsTrade(first) /\ IsTrade(second)
    /\ pool.type = "ConstantProduct" /\ pool.ReserveA # pool.ReserveB
    /\ first.asset = pool.assetB
    /\ second.pool.assetA = first.asset /\ second.pool.ReserveA = pool.ReserveB
    /\ first.ret.err = nil /\ first.ret.val # << >>
    /\ second.ret = first.ret

\* The same call run alone: the calculator applied to the arguments, with
\* centibips = 10000 and bips = 100.
Alone(c) ==
    CASE c.fn = "CalculatePoolPayout" ->
             CalculatePoolPayout(N(10000), N(100), c.reserveA, c.reserveB, c.amount,
                                 c.feeBips, c.slip)
      [] c.fn = "calculatePoolExpectation" ->
             calculatePoolExpectation(N(10000), c.reserveA, c.reserveB, c.amount, c.feeBips)
      [] c.fn = "CalculatePoolExpectationRoundingSlippage" ->
             CalculatePoolExpectationRoundingSlippage(N(10000), N(100), c.reserveA,
                                                      c.reserveB, c.amount, c.feeBips)
      [] c.fn = "makeTrade" ->
             makeTrade(N(10000), N(100), c.pool, c.asset, c.tradeType, c.amount)

\* what each call the threads make returns when it runs alone
AloneResults == [c \in ThreadCalls |-> Alone(c)]

\* C18: under any interleaving of concurrent calls of makeTrade,
\* CalculatePoolPayout, calculatePoolExpectation and
\* CalculatePoolExpectationRoundingSlippage, centibips stays 10000 and bips
\* stays 100, and every call that has returned has returned what the same call
\* returns when it runs alone.
C18_NoSharedMutableState ==
    /\ centibips = N(10000)
    /\ bips = N(100)
    /\ \A i \in 1..Len(threads) :
           threads[i].done => threads[i].ret = AloneResults[threads[i].call]

\* C18's case: a second call has started and returned, with success, while
\* the first call was in the middle of its arithmetic.
C18_Witness ==
    /\ Len(threads) = 2
    /\ ~threads[1].done /\ threads[1].pc > 2
    /\ threads[2].done /\ threads[2].call.fn # "makeTrade" /\ threads[2].ret.ok
    /\ threads[2].ret = AloneResults[threads[2].call]
    /\ centibips = N(10000) /\ bips = N(100)

====
